---- MODULE Spec2Model ----
(***************************************************************************)
(* ida_kernelcache/ida_utilities.py: the function-boundary repair          *)
(* (force_function, _convert_address_to_function,                          *)
(* _fix_unrecognized_function_insns) run against the analysis database of  *)
(* the disassembler, and the generators Addresses and Instructions.        *)
(*                                                                         *)
(* The analysis database is foreign state.  It is modelled by what the     *)
(* repair reads and writes of it: which function owns each address, and    *)
(* which addresses are instruction heads.  Every answer the engine gives   *)
(* that the repair cannot predict (whether a call succeeds, how far a new  *)
(* function extends, where a detached chunk goes) is a nondeterministic    *)
(* choice.                                                                 *)
(***************************************************************************)
EXTENDS Integers, Sequences, FiniteSets, TLC

VARIABLES
    db,        \* db[a]: <<entry of the function owning a, start of a's chunk>>, or Free
    insns,     \* the addresses that are instruction heads
    func,      \* the argument of force_function
    orig,      \* local of _convert_address_to_function
    chunks,    \* local: list(idautils.Chunks(orig)), as (start, end) pairs
    i,         \* loop variable of the detachment loop = remove_fchunk calls made;
               \* dead once the loop is left, and forgotten then
    ci,        \* position of the rollback loop in chunks
    unrec,     \* local unrecognized_insn of _fix_unrecognized_function_insns
    fixRet,    \* what _fix_unrecognized_function_insns returned ("none" before)
    pc,        \* position in force_function
    ret,       \* what force_function returned ("none" while it runs)
    db0,       \* db at the call of force_function
    insns0,    \* insns at the call of force_function
    issued,    \* kinds of mutating engine calls issued so far
    log,       \* the add_func / del_func calls issued so far, with results
    last,      \* the last mutating engine call issued, with its result
    gAddr,     \* generators: local addr of _addresses / pc of the instruction loops
    gEnd,      \* generators: argument end (GNone when not given)
    gStep,     \* Addresses: argument step
    gOpts,     \* generators: the other arguments
    gMem,      \* Addresses: the loaded bytes; Instructions: size decoded at each address
    gOut,      \* generators: what was yielded so far
    gState     \* generators: "call", "run", "tail", "stop" (StopIteration) or
               \* the exception raised

repairVars == <<db, insns, func, orig, chunks, i, ci, unrec, fixRet, pc, ret,
                db0, insns0, issued, log, last>>
genVars == <<gAddr, gEnd, gStep, gOpts, gMem, gOut, gState>>
vars == <<db, insns, func, orig, chunks, i, ci, unrec, fixRet, pc, ret,
          db0, insns0, issued, log, last, gAddr, gEnd, gStep, gOpts, gMem, gOut, gState>>

(***************************************************************************)
(* Bounds and constants                                                    *)
(***************************************************************************)
MaxAddr == 4
DetachLimit == 1024

Addr == 1..MaxAddr
\* idc.BADADDR: an address of nothing in the image
BADADDR == MaxAddr + 1
\* the zero end_ea find_func_bounds leaves when it finds nothing
NullEa == 0

(***************************************************************************)
(* The analysis database                                                   *)
(***************************************************************************)
\* what db holds for an address no function owns
Free == <<BADADDR, BADADDR>>

\* idaapi.get_func(a), as the entry address of the function owning a
GetFunc(d, a) == IF a \in Addr THEN d[a][1] ELSE BADADDR

\* idc.get_func_attr(ea, FUNCATTR_START) == ea
is_function_start(d, ea) == GetFunc(d, ea) = ea

\* idc.first_func_chunk(a): entry of the function a belongs to, or BADADDR
first_func_chunk(d, a) == GetFunc(d, a)

\* start of the chunk a lies in
ChunkStart(d, a) == d[a][2]

\* end (exclusive) of the chunk a lies in
RECURSIVE ChunkEnd(_, _)
ChunkEnd(d, a) ==
    IF a + 1 \in Addr /\ d[a + 1] = d[a] THEN ChunkEnd(d, a + 1) ELSE a + 1

\* the elements of a set of addresses in increasing order
RECURSIVE SortedSeq(_)
SortedSeq(S) ==
    IF S = {} THEN <<>>
    ELSE LET m == CHOOSE x \in S : \A y \in S : x <= y
         IN  <<m>> \o SortedSeq(S \ {m})

\* idautils.Chunks(f): the entry chunk, then the tail chunks
Chunks(d, f) ==
    IF GetFunc(d, f) = BADADDR THEN <<>>
    ELSE LET e == GetFunc(d, f)
             tails == {c \in Addr : d[c] = <<e, c>> /\ c # e}
             starts == <<e>> \o SortedSeq(tails)
         IN  [k \in 1..Len(starts) |-> <<starts[k], ChunkEnd(d, starts[k])>>]

\* the database in which o[a] is the owner of a and a chunk is a longest run
\* of addresses with one owner
MakeDb(o) ==
    [a \in Addr |->
        IF o[a] = BADADDR THEN Free
        ELSE <<o[a], CHOOSE c \in 1..a :
                        /\ \A x \in c..a : o[x] = o[a]
                        /\ c = 1 \/ o[c - 1] # o[a]>>]

\* the databases before the call: the owner of an address is the entry of a
\* function, and an entry starts a chunk of its function
Databases ==
    {MakeDb(o) :
        o \in {oo \in [Addr -> Addr \cup {BADADDR}] :
                 /\ \A a \in Addr : oo[a] # BADADDR => oo[oo[a]] = oo[a]
                 /\ \A a \in Addr : oo[a] = a => (a = 1 \/ oo[a - 1] # a)}}

Owned(d) == {a \in Addr : GetFunc(d, a) # BADADDR}
Unowned(d) == Addr \ Owned(d)
Funcs(d) == {a \in Addr : GetFunc(d, a) = a}

Outcome(ok, d) == [ok |-> ok, db |-> d]

\* ida_funcs.add_func(a): fails, or makes a function at a over free addresses
add_func(d, a) ==
    {Outcome(FALSE, d)} \cup
    IF GetFunc(d, a) = BADADDR /\ a \in Addr
    THEN {Outcome(TRUE, [x \in Addr |-> IF a <= x /\ x < e THEN <<a, a>> ELSE d[x]]) :
             e \in {e \in (a + 1)..(MaxAddr + 1) : \A x \in a..(e - 1) : d[x] = Free}}
    ELSE {}

\* ida_funcs.del_func(a): fails, or deletes the function owning a
del_func(d, a) ==
    {Outcome(FALSE, d)} \cup
    IF GetFunc(d, a) # BADADDR
    THEN {Outcome(TRUE, [x \in Addr |->
                           IF GetFunc(d, x) = GetFunc(d, a) THEN Free ELSE d[x]])}
    ELSE {}

\* idc.remove_fchunk(a, a): fails, or removes the tail chunk a lies in from its
\* function; the engine may add the chunk to another function by itself
remove_fchunk(d, a) ==
    {Outcome(FALSE, d)} \cup
    IF GetFunc(d, a) # BADADDR /\ ChunkStart(d, a) # GetFunc(d, a)
    THEN {Outcome(TRUE, [x \in Addr |->
                           IF d[x] = d[a]
                           THEN (IF g = BADADDR THEN Free ELSE <<g, ChunkStart(d, a)>>)
                           ELSE d[x]]) :
             g \in {BADADDR} \cup (Funcs(d) \ {GetFunc(d, a)})}
    ELSE {}

\* a mutating call as recorded: the operation, its argument, the function the
\* engine finds at the argument when called, and the result
Call(d, op, arg, ok) == [op |-> op, arg |-> arg, fn |-> GetFunc(d, arg), ok |-> ok]
NoCall == [op |-> "none", arg |-> BADADDR, fn |-> BADADDR, ok |-> TRUE]

(***************************************************************************)
(* force_function                                                          *)
(***************************************************************************)
\* Before the call: any well-formed database, any address.  What a function
\* owns was decoded as code; what no function owns is not an instruction yet.
RepairIdle ==
    /\ db \in Databases
    /\ insns = Owned(db)
    /\ func \in Addr
    /\ orig = BADADDR
    /\ chunks = <<>>
    /\ i = 0
    /\ ci = 1
    /\ unrec = NullEa
    /\ fixRet = "none"
    /\ pc = "force_function"
    /\ ret = "none"
    /\ db0 = db
    /\ insns0 = insns
    /\ issued = {}
    /\ log = <<>>
    /\ last = NoCall

GenOff ==
    /\ gAddr = 0
    /\ gEnd = 0
    /\ gStep = 1
    /\ gOpts = <<>>
    /\ gMem = {}
    /\ gOut = <<>>
    /\ gState = "off"

Init == RepairIdle /\ GenOff

Return(r) == /\ ret' = r
             /\ pc' = "done"

ForceFunction_NoCheck ==
    /\ pc = "force_function"
    /\ pc' = "convert"
    /\ UNCHANGED <<db, insns, func, orig, chunks, i, ci, unrec, fixRet, ret,
                   db0, insns0, issued, log, last>>
    /\ UNCHANGED genVars

\* force_function: an address that is a function start already is left alone
ForceFunction ==
    /\ pc = "force_function"
    /\ IF is_function_start(db, func)
       THEN Return("true")
       ELSE /\ pc' = "convert"
            /\ ret' = ret
    /\ UNCHANGED <<db, insns, func, orig, chunks, i, ci, unrec, fixRet,
                   db0, insns0, issued, log, last>>
    /\ UNCHANGED genVars

\* _convert_address_to_function, up to the branch on find_func_end
ConvertBegin ==
    /\ pc = "convert"
    /\ orig' = first_func_chunk(db, func)
    /\ \E found \in BOOLEAN :
          pc' = IF found THEN "detach" ELSE "fix_test"
    /\ UNCHANGED <<db, insns, func, chunks, i, ci, unrec, fixRet, ret,
                   db0, insns0, issued, log, last>>
    /\ UNCHANGED genVars

\* where _convert_address_to_function goes on when
\* _fix_unrecognized_function_insns returns (its result is not looked at)
AfterFix_Detach == "detach"
AfterFix == "add_func"

\* _fix_unrecognized_function_insns: the loop test
FixTest ==
    /\ pc = "fix_test"
    /\ \E found \in BOOLEAN :
          IF found
          THEN /\ fixRet' = "true"
               /\ pc' = AfterFix
          ELSE /\ fixRet' = fixRet
               /\ pc' = "fix_bounds"
    /\ UNCHANGED <<db, insns, func, orig, chunks, i, ci, unrec, ret,
                   db0, insns0, issued, log, last>>
    /\ UNCHANGED genVars

\* find_func_bounds and the test of end_ea
FixBounds ==
    /\ pc = "fix_bounds"
    /\ \E ea \in {NullEa} \cup Addr :
          /\ unrec' = ea
          /\ IF ea = NullEa
             THEN /\ fixRet' = "false"
                  /\ pc' = AfterFix
             ELSE /\ fixRet' = fixRet
                  /\ pc' = "fix_undefine"
    /\ UNCHANGED <<db, insns, func, orig, chunks, i, ci, ret,
                   db0, insns0, issued, log, last>>
    /\ UNCHANGED genVars

\* ida_bytes.del_items(unrecognized_insn, DELIT_EXPAND)
FixUndefine ==
    /\ pc = "fix_undefine"
    /\ insns' = insns \ {unrec}
    /\ issued' = issued \cup {"undefine_range"}
    /\ last' = Call(db, "undefine_range", unrec, TRUE)
    /\ pc' = "fix_make"
    /\ UNCHANGED <<db, func, orig, chunks, i, ci, unrec, fixRet, ret,
                   db0, insns0, log>>
    /\ UNCHANGED genVars

\* idc.create_insn(unrecognized_insn) and the test of its result
FixMakeInsn ==
    /\ pc = "fix_make"
    /\ issued' = issued \cup {"make_instruction"}
    /\ \E ok \in BOOLEAN :
          /\ last' = Call(db, "make_instruction", unrec, ok)
          /\ IF ok
             THEN /\ insns' = insns \cup {unrec}
                  /\ fixRet' = fixRet
                  /\ pc' = "fix_test"
             ELSE /\ insns' = insns
                  /\ fixRet' = "false"
                  /\ pc' = AfterFix
    /\ UNCHANGED <<db, func, orig, chunks, i, ci, unrec, ret, db0, insns0, log>>
    /\ UNCHANGED genVars

\* "for i in range(1024)": whether the loop has another pass after k passes
DetachLoopRuns_OffByOne(k) == k <= DetachLimit
DetachLoopRuns(k) == k < DetachLimit

\* one pass of "for i in range(1024): if not remove_fchunk(func, func): break"
Detach ==
    /\ pc = "detach"
    /\ IF DetachLoopRuns(i)
       THEN \E o \in remove_fchunk(db, func) :
               /\ db' = o.db
               /\ issued' = issued \cup {"detach_chunk"}
               /\ last' = Call(db, "detach_chunk", func, o.ok)
               /\ IF o.ok
                  THEN /\ i' = i + 1
                       /\ pc' = "detach"
                  ELSE /\ i' = 0
                       /\ pc' = "add_func"
       ELSE /\ pc' = "add_func"
            /\ i' = 0
            /\ UNCHANGED <<db, issued, last>>
    /\ UNCHANGED <<insns, func, orig, chunks, ci, unrec, fixRet, ret,
                   db0, insns0, log>>
    /\ UNCHANGED genVars

\* where the failed first add_func(func) leads: "if orig != idc.BADADDR"
AfterFirstFailure_Always(o) == "del_orig"
AfterFirstFailure(o) == IF o # BADADDR THEN "del_orig" ELSE "done"

\* "Now try making a function": the first add_func(func)
AddFunc_Continue ==
    /\ pc = "add_func"
    /\ \E o \in add_func(db, func) :
          /\ db' = o.db
          /\ log' = Append(log, Call(db, "create_function", func, o.ok))
          /\ last' = Call(db, "create_function", func, o.ok)
          /\ IF AfterFirstFailure(orig) = "done"
             THEN Return(IF o.ok THEN "true" ELSE "false")
             ELSE /\ pc' = AfterFirstFailure(orig)
                  /\ ret' = ret
    /\ issued' = issued \cup {"create_function"}
    /\ UNCHANGED <<insns, func, orig, chunks, i, ci, unrec, fixRet, db0, insns0>>
    /\ UNCHANGED genVars
AddFunc ==
    /\ pc = "add_func"
    /\ \E o \in add_func(db, func) :
          /\ db' = o.db
          /\ log' = Append(log, Call(db, "create_function", func, o.ok))
          /\ last' = Call(db, "create_function", func, o.ok)
          /\ IF o.ok
             THEN Return("true")
             ELSE IF AfterFirstFailure(orig) = "done"
             THEN Return("false")
             ELSE /\ pc' = AfterFirstFailure(orig)
                  /\ ret' = ret
    /\ issued' = issued \cup {"create_function"}
    /\ UNCHANGED <<insns, func, orig, chunks, i, ci, unrec, fixRet, db0, insns0>>
    /\ UNCHANGED genVars

\* where del_func(orig) leads: into the "if del_func(orig) != 0" block, or
\* past it to the restore of orig
AfterDelOrig_Undo(ok) == IF ok THEN "add_func2" ELSE "undo"
AfterDelOrig(ok) == IF ok THEN "add_func2" ELSE "restore"

\* chunks = list(Chunks(orig)); del_func(orig)
DelOrig ==
    /\ pc = "del_orig"
    /\ chunks' = Chunks(db, orig)
    /\ \E o \in del_func(db, orig) :
          /\ db' = o.db
          /\ log' = Append(log, Call(db, "delete_function", orig, o.ok))
          /\ last' = Call(db, "delete_function", orig, o.ok)
          /\ pc' = AfterDelOrig(o.ok)
    /\ issued' = issued \cup {"delete_function"}
    /\ UNCHANGED <<insns, func, orig, i, ci, unrec, fixRet, ret, db0, insns0>>
    /\ UNCHANGED genVars

\* the second add_func(func), after orig was deleted
AddFunc2 ==
    /\ pc = "add_func2"
    /\ \E o \in add_func(db, func) :
          /\ db' = o.db
          /\ log' = Append(log, Call(db, "create_function", func, o.ok))
          /\ last' = Call(db, "create_function", func, o.ok)
          /\ pc' = IF o.ok THEN "add_orig" ELSE "undo"
    /\ issued' = issued \cup {"create_function"}
    /\ UNCHANGED <<insns, func, orig, chunks, i, ci, unrec, fixRet, ret,
                   db0, insns0>>
    /\ UNCHANGED genVars

\* all(idaapi.get_func(start) for start, end in chunks)
AllChunksOwned_Skip(d, cs) == TRUE
AllChunksOwned(d, cs) == \A k \in 1..Len(cs) : GetFunc(d, cs[k][1]) # BADADDR

\* add_func(orig) and the check of the recorded chunks
AddOrig ==
    /\ pc = "add_orig"
    /\ \E o \in add_func(db, orig) :
          /\ db' = o.db
          /\ log' = Append(log, Call(db, "create_function", orig, o.ok))
          /\ last' = Call(db, "create_function", orig, o.ok)
          /\ IF o.ok /\ AllChunksOwned(o.db, chunks)
             THEN Return("true")
             ELSE /\ pc' = "undo"
                  /\ ret' = ret
    /\ issued' = issued \cup {"create_function"}
    /\ UNCHANGED <<insns, func, orig, chunks, i, ci, unrec, fixRet, db0, insns0>>
    /\ UNCHANGED genVars

\* the address one pass of the rollback loop deletes at: "for start, _ in chunks"
UndoTarget_End(cs, k) == cs[k][2]
UndoTarget(cs, k) == cs[k][1]

\* "Try to undo the damage": for start, _ in chunks: del_func(start)
Undo_StopOnFailure ==
    /\ pc = "undo"
    /\ IF ci <= Len(chunks)
       THEN \E o \in del_func(db, UndoTarget(chunks, ci)) :
               /\ db' = o.db
               /\ log' = Append(log, Call(db, "delete_function", UndoTarget(chunks, ci), o.ok))
               /\ last' = Call(db, "delete_function", UndoTarget(chunks, ci), o.ok)
               /\ ci' = IF o.ok THEN ci + 1 ELSE Len(chunks) + 1
               /\ pc' = pc
               /\ issued' = issued \cup {"delete_function"}
       ELSE /\ pc' = "restore"
            /\ UNCHANGED <<db, log, ci, issued, last>>
    /\ UNCHANGED <<insns, func, orig, chunks, i, unrec, fixRet, ret, db0, insns0>>
    /\ UNCHANGED genVars
Undo ==
    /\ pc = "undo"
    /\ IF ci <= Len(chunks)
       THEN \E o \in del_func(db, UndoTarget(chunks, ci)) :
               /\ db' = o.db
               /\ log' = Append(log, Call(db, "delete_function", UndoTarget(chunks, ci), o.ok))
               /\ last' = Call(db, "delete_function", UndoTarget(chunks, ci), o.ok)
               /\ ci' = ci + 1
               /\ pc' = pc
               /\ issued' = issued \cup {"delete_function"}
       ELSE /\ pc' = "restore"
            /\ UNCHANGED <<db, log, ci, issued, last>>
    /\ UNCHANGED <<insns, func, orig, chunks, i, unrec, fixRet, ret, db0, insns0>>
    /\ UNCHANGED genVars

\* "try to restore it": add_func(orig), then return False
Restore ==
    /\ pc = "restore"
    /\ \E o \in add_func(db, orig) :
          /\ db' = o.db
          /\ log' = Append(log, Call(db, "create_function", orig, o.ok))
          /\ last' = Call(db, "create_function", orig, o.ok)
    /\ issued' = issued \cup {"create_function"}
    /\ Return("false")
    /\ UNCHANGED <<insns, func, orig, chunks, i, ci, unrec, fixRet, db0, insns0>>
    /\ UNCHANGED genVars

Next ==
    \/ ForceFunction
    \/ ConvertBegin
    \/ FixTest
    \/ FixBounds
    \/ FixUndefine
    \/ FixMakeInsn
    \/ Detach
    \/ AddFunc
    \/ DelOrig
    \/ AddFunc2
    \/ AddOrig
    \/ Undo
    \/ Restore

Spec == Init /\ [][Next]_vars

\* force_function is one synchronous call: it keeps running until it returns
FairSpec == Init /\ [][Next]_vars /\ WF_vars(Next)

(***************************************************************************)
(* Addresses and Instructions                                              *)
(***************************************************************************)
GenMaxEa == 4
MaxStep == 2
MaxLength == 2
MaxInsnSize == 2
MaxCount == 2

GenEa == 0..GenMaxEa
\* Python's None for an argument that was not given
GNone == 0 - 1

RepairOff ==
    /\ db = [a \in Addr |-> Free]
    /\ insns = {}
    /\ func = BADADDR
    /\ orig = BADADDR
    /\ chunks = <<>>
    /\ i = 0
    /\ ci = 1
    /\ unrec = NullEa
    /\ fixRet = "none"
    /\ pc = "off"
    /\ ret = "none"
    /\ db0 = db
    /\ insns0 = insns
    /\ issued = {}
    /\ log = <<>>
    /\ last = NoCall

\* is_mapped(ea) with size 1: ida_bytes.is_loaded(ea)
is_mapped(mem, ea) == ea \in mem

\* a call Addresses(start, end, step, length, partial, aligned, unmapped, allow_unmapped)
AddressesInit ==
    /\ gAddr \in 0..1
    /\ gEnd \in {GNone} \cup GenEa
    /\ gStep \in 0..MaxStep
    /\ gOpts \in [length : {GNone} \cup 0..MaxLength, partial : BOOLEAN,
                  aligned : BOOLEAN, unmapped : BOOLEAN, allow_unmapped : BOOLEAN]
    /\ gMem \in SUBSET GenEa
    /\ gOut = <<>>
    /\ gState = "call"

\* Addresses: the checks of the arguments and the end address
AddressesCall ==
    /\ gState = "call"
    /\ LET end_addr == gAddr + gOpts.length * gStep
       IN  IF gStep < 1
           THEN /\ gState' = "ValueError"
                /\ gEnd' = gEnd
           ELSE IF gOpts.length # GNone /\ gEnd # GNone /\ gEnd # end_addr
           THEN /\ gState' = "ValueError"
                /\ gEnd' = gEnd
           ELSE IF gOpts.length = GNone /\ gEnd = GNone
           THEN /\ gState' = "ValueError"
                /\ gEnd' = gEnd
           ELSE /\ gState' = "run"
                /\ gEnd' = IF gOpts.length # GNone THEN end_addr ELSE gEnd
    /\ UNCHANGED <<gAddr, gStep, gOpts, gMem, gOut>>
    /\ UNCHANGED repairVars

\* what the next() of _addresses gives in the state (st, addr):
\* kind "yield" with the address, "raise", or "stop"
addresses_next(st, addr, end, step, partial, aligned) ==
    IF st = "run" /\ addr < end - step + 1
    THEN [kind |-> "yield", addr |-> addr, st |-> "run", next |-> addr + step]
    ELSE IF st = "run" /\ addr # end /\ aligned
    THEN [kind |-> "raise", addr |-> end, st |-> "AlignmentError", next |-> addr]
    ELSE IF st = "run" /\ addr # end /\ addr < end /\ partial
    THEN [kind |-> "yield", addr |-> addr, st |-> "tail", next |-> addr]
    ELSE [kind |-> "stop", addr |-> addr, st |-> "stop", next |-> addr]

\* what _mapped_addresses does with an address it got: "yield", "skip" or "break"
mapped_filter(mem, addr, step, partial, allow_unmapped) ==
    LET start_is_mapped == is_mapped(mem, addr)
        end_is_mapped == is_mapped(mem, addr + step - 1)
        fully_mapped == start_is_mapped /\ end_is_mapped
        allowed_partial == partial /\ (start_is_mapped \/ end_is_mapped)
    IN  IF fully_mapped \/ allowed_partial THEN "yield"
        ELSE IF ~allow_unmapped THEN "break"
        ELSE "skip"

\* one next() on the generator Addresses returned, up to its next yield or end
AddressesNext ==
    /\ gState \in {"run", "tail"}
    /\ LET n == addresses_next(gState, gAddr, gEnd, gStep, gOpts.partial, gOpts.aligned)
           f == IF gOpts.unmapped THEN "yield"
                ELSE mapped_filter(gMem, n.addr, gStep, gOpts.partial,
                                   gOpts.allow_unmapped)
       IN  /\ gAddr' = n.next
           /\ IF n.kind # "yield"
              THEN /\ gState' = n.st
                   /\ gOut' = gOut
              ELSE IF f = "yield"
              THEN /\ gState' = n.st
                   /\ gOut' = Append(gOut, n.addr)
              ELSE IF f = "break"
              THEN /\ gState' = "stop"
                   /\ gOut' = gOut
              ELSE /\ gState' = n.st
                   /\ gOut' = gOut
    /\ UNCHANGED <<gEnd, gStep, gOpts, gMem>>
    /\ UNCHANGED repairVars

AddressesSpecInit == RepairOff /\ AddressesInit
AddressesSpecNext == AddressesCall \/ AddressesNext
AddressesSpec == AddressesSpecInit /\ [][AddressesSpecNext]_vars

\* a call Instructions(start, end, count); gMem[ea] is the size of the
\* instruction DecodeInstruction finds at ea, 0 when it finds none
InstructionsInit ==
    /\ gAddr \in 0..1
    /\ gEnd \in {GNone} \cup GenEa
    /\ gStep = 1
    /\ gOpts \in [count : {GNone} \cup 0..MaxCount, done : {0}]
    /\ gMem \in [GenEa -> 0..MaxInsnSize]
    /\ gOut = <<>>
    /\ gState = "call"

\* idautils.DecodeInstruction(ea): the size decoded, 0 for None
DecodeInstruction(mem, ea) == IF ea \in DOMAIN mem THEN mem[ea] ELSE 0

\* Instructions: the check of the arguments
InstructionsCall ==
    /\ gState = "call"
    /\ gState' = IF (gEnd # GNone /\ gOpts.count # GNone) \/
                    (gEnd = GNone /\ gOpts.count = GNone)
                 THEN "ValueError"
                 ELSE "run"
    /\ UNCHANGED <<gAddr, gEnd, gStep, gOpts, gMem, gOut>>
    /\ UNCHANGED repairVars

\* one next() of _instructions_by_range
instructions_by_range ==
    /\ gState = "run"
    /\ gEnd # GNone
    /\ LET size == DecodeInstruction(gMem, gAddr)
       IN  IF gAddr < gEnd /\ size # 0
           THEN /\ gOut' = Append(gOut, [ea |-> gAddr, size |-> size])
                /\ gAddr' = gAddr + size
                /\ gState' = gState
           ELSE /\ gState' = "stop"
                /\ UNCHANGED <<gOut, gAddr>>
    /\ UNCHANGED <<gEnd, gStep, gOpts, gMem>>
    /\ UNCHANGED repairVars

\* one next() of _instructions_by_count
instructions_by_count ==
    /\ gState = "run"
    /\ gEnd = GNone
    /\ LET size == DecodeInstruction(gMem, gAddr)
       IN  IF gOpts.done < gOpts.count /\ size # 0
           THEN /\ gOut' = Append(gOut, [ea |-> gAddr, size |-> size])
                /\ gAddr' = gAddr + size
                /\ gOpts' = [gOpts EXCEPT !.done = @ + 1]
                /\ gState' = gState
           ELSE /\ gState' = "stop"
                /\ UNCHANGED <<gOut, gAddr, gOpts>>
    /\ UNCHANGED <<gEnd, gStep, gMem>>
    /\ UNCHANGED repairVars

InstructionsSpecInit == RepairOff /\ InstructionsInit
InstructionsSpecNext ==
    \/ InstructionsCall
    \/ instructions_by_range
    \/ instructions_by_count
InstructionsSpec == InstructionsSpecInit /\ [][InstructionsSpecNext]_vars

(***************************************************************************)
(* Properties of force_function                                            *)
(***************************************************************************)
Returned == pc = "done"

\* orig was deleted (the second recorded call is the del_func(orig) that
\* succeeded) and the call gave up: the rollback loop and the restore ran
RollbackDone ==
    /\ Returned
    /\ ret = "false"
    /\ Len(log) >= 2
    /\ log[2].op = "delete_function"
    /\ log[2].ok

\* C1: when addr is a function start at the call, force_function returns true
\* and issues no mutating engine call: the database is what it was before.
C1_AlreadyFunctionNoOp ==
    is_function_start(db0, func) =>
        /\ pc \in {"force_function", "done"}
        /\ Returned => ret = "true"
        /\ issued = {}
        /\ log = <<>>
        /\ last = NoCall
        /\ db = db0
        /\ insns = insns0

C1_Witness == Returned /\ is_function_start(db0, func) /\ ret = "true"

\* C2: when addr is no function start at the call, the result of
\* force_function says whether addr is a function start when it returns.
C2_ResultIsFunctionStart ==
    (Returned /\ ~is_function_start(db0, func)) =>
        ((ret = "true") <=> is_function_start(db, func))

\* C3: the instruction-boundary recovery loop is left after finitely many
\* passes, whatever the engine answers.
C3_FixLoopExits == (pc = "fix_test") ~> (pc = "add_func")

\* C4: remove_fchunk(addr, addr) is called at most DetachLimit times, never
\* again after a call that failed, and add_func(addr) is what follows the loop,
\* whether a failed removal or the bound ended it.
C4_DetachBounded ==
    /\ [](pc = "detach" =>
            /\ i <= DetachLimit
            /\ i > 0 => last = [op |-> "detach_chunk", arg |-> func,
                                fn |-> last.fn, ok |-> TRUE])
    /\ []((last.op = "detach_chunk" /\ ~last.ok) => pc = "add_func")
    /\ [][pc = "detach" =>
            \/ /\ pc' = "detach"
               /\ i < DetachLimit
               /\ i' = i + 1
               /\ last'.op = "detach_chunk" /\ last'.arg = func /\ last'.ok
            \/ /\ pc' = "add_func"
               /\ i = DetachLimit \/ (last'.op = "detach_chunk" /\ ~last'.ok)]_vars
    /\ [][pc' = "detach" => pc \in {"convert", "detach"}]_vars
    /\ [][pc = "add_func" =>
            /\ last'.op = "create_function"
            /\ last'.arg = func
            /\ log' = Append(log, last')]_vars

C4_Witness == pc = "detach" /\ i = DetachLimit

\* C5: with no function owning addr at the call and the creation failing,
\* force_function returns false after the one failed add_func(addr) and no
\* del_func, and the same addresses are owned as before.
C5_NoOrigTotalFailure ==
    (Returned /\ GetFunc(db0, func) = BADADDR /\ ret = "false") =>
        /\ Len(log) = 1
        /\ log[1].op = "create_function"
        /\ log[1].arg = func
        /\ ~log[1].ok
        /\ "delete_function" \notin issued
        /\ Owned(db) = Owned(db0)

C5_Witness ==
    /\ Returned
    /\ GetFunc(db0, func) = BADADDR
    /\ ret = "false"
    /\ "make_instruction" \in issued

\* C6 as stated: after a rollback no more addresses are owned by no function
\* than before the call.
C6_NoMoreUnowned ==
    RollbackDone => Cardinality(Unowned(db)) <= Cardinality(Unowned(db0))

\* C6, amended: after a rollback every address that lost its owner belonged to
\* orig before the call.
C6_OnlyOrigLost ==
    RollbackDone => \A a \in Unowned(db) \ Unowned(db0) : GetFunc(db0, a) = orig

C6_Witness ==
    /\ RollbackDone
    /\ ~log[Len(log)].ok
    /\ Cardinality(Unowned(db)) > Cardinality(Unowned(db0))

\* C7: when del_func(orig) and the second add_func(addr) succeed and
\* add_func(orig) fails, the rollback deletes the function that starts at
\* addr, then add_func(orig) is tried again, and the result is false.
C7_RollbackDeletesAddrFunction ==
    (/\ Returned
     /\ Len(log) >= 4
     /\ log[2].op = "delete_function" /\ log[2].ok
     /\ log[3].op = "create_function" /\ log[3].ok
     /\ log[4].op = "create_function" /\ ~log[4].ok) =>
        /\ ret = "false"
        /\ \E k \in 5..(Len(log) - 1) :
              log[k].op = "delete_function" /\ log[k].fn = func
        /\ log[Len(log)].op = "create_function"
        /\ log[Len(log)].arg = orig

\* C10 as stated: after a failed recovery no add_func(addr) is tried before
\* the branch for the failed creation.
C10_NoCreateAfterFailedRecovery ==
    (fixRet = "false" /\ log # <<>>) => log[1].op # "create_function"

\* C10, amended: after a failed recovery no remove_fchunk is called and
\* add_func(addr) is the next call; the branch for the failed creation is
\* entered only when that call fails.
C10_FailedRecoveryThenAddFunc ==
    fixRet = "false" =>
        /\ "detach_chunk" \notin issued
        /\ \/ pc = "add_func" /\ log = <<>>
           \/ /\ log # <<>>
              /\ log[1].op = "create_function"
              /\ log[1].arg = func
              /\ log[1].ok => (Returned /\ ret = "true" /\ Len(log) = 1)

C10_Witness ==
    /\ fixRet = "false"
    /\ unrec = NullEa
    /\ pc = "del_orig"

\* orig was deleted: the second recorded call is the del_func(orig) that
\* succeeded
OrigDeleted ==
    /\ Len(log) >= 2
    /\ log[2].op = "delete_function"
    /\ log[2].arg = orig
    /\ log[2].ok

\* a chunk start recorded before del_func(orig) that no function owns now
SnapshotStartUnowned ==
    \E k \in 1..Len(chunks) : GetFunc(db, chunks[k][1]) = BADADDR

\* C11: force_function returns true after deleting orig only when the second
\* add_func(addr) succeeded, add_func(orig) then succeeded and every recorded
\* chunk start of orig is owned by a function at that moment; when some
\* recorded chunk start is owned by no function after add_func(orig), the
\* rollback is entered and the result is false.
C11_TrueOnlyWhenVerified ==
    /\ (Returned /\ OrigDeleted /\ ret = "true") =>
          /\ Len(log) = 4
          /\ log[1].op = "create_function" /\ log[1].arg = func /\ ~log[1].ok
          /\ log[3].op = "create_function" /\ log[3].arg = func /\ log[3].ok
          /\ log[4].op = "create_function" /\ log[4].arg = orig /\ log[4].ok
          /\ last = log[4]
          /\ ~SnapshotStartUnowned
    /\ (/\ OrigDeleted
        /\ Len(log) = 4
        /\ log[4].op = "create_function"
        /\ SnapshotStartUnowned) =>
          /\ pc = "undo"
          /\ ci = 1
          /\ ret = "none"
    /\ (Returned /\ OrigDeleted /\ Len(log) > 4) => ret = "false"

C11_Witness ==
    /\ Returned
    /\ OrigDeleted
    /\ ret = "true"
    /\ Len(chunks) >= 2

\* C12: the first add_func/del_func call of force_function is add_func(addr);
\* del_func is called only after that call failed; when it succeeds the
\* result is true and it stays the only recorded call: no del_func and no
\* second add_func.
C12_LeastInvasiveOrder ==
    /\ log # <<>> =>
          /\ log[1].op = "create_function"
          /\ log[1].arg = func
          /\ log[1].ok =>
               /\ Returned
               /\ ret = "true"
               /\ Len(log) = 1
               /\ last = log[1]
    /\ \A k \in 1..Len(log) :
          log[k].op = "delete_function" => (k >= 2 /\ ~log[1].ok)
    /\ "delete_function" \in issued =>
          \E k \in 2..Len(log) : log[k].op = "delete_function"
    /\ pc \in {"del_orig", "add_func2", "add_orig", "undo", "restore"} =>
          (log # <<>> /\ ~log[1].ok)

C12_Witness ==
    /\ Returned
    /\ orig # BADADDR
    /\ log # <<>>
    /\ log[1].ok
    /\ ret = "true"

\* the position in the call log of the last call before the rollback loop
BeforeUndo == Len(log) - Len(chunks) - 1

\* C13: when force_function returns false after del_func(orig) succeeded, the
\* call log ends with one del_func per recorded chunk start of orig, in the
\* recorded order and whatever each of them answered, followed by one
\* add_func(orig), which is the last mutating call; the result is false
\* whatever that add_func(orig) answers.
C13_RollbackDeletesEveryChunk ==
    /\ RollbackDone =>
          /\ BeforeUndo \in {3, 4}
          /\ \A k \in 3..BeforeUndo : log[k].op = "create_function"
          /\ \A k \in 1..Len(chunks) :
                /\ log[BeforeUndo + k].op = "delete_function"
                /\ log[BeforeUndo + k].arg = chunks[k][1]
          /\ \A j, k \in 1..Len(chunks) : j # k => chunks[j][1] # chunks[k][1]
          /\ log[Len(log)].op = "create_function"
          /\ log[Len(log)].arg = orig
          /\ last = log[Len(log)]
    /\ (Returned /\ OrigDeleted /\ last.arg = orig /\ Len(log) > 4) =>
          ret = "false"
    /\ (pc \in {"undo", "restore"} \/ (Returned /\ ret = "false")) =>
          (OrigDeleted => \A k \in 1..Len(chunks) :
                            k < ci => /\ Len(log) >= 3 + k
                                      /\ \E j \in 4..Len(log) :
                                            /\ log[j].op = "delete_function"
                                            /\ log[j].arg = chunks[k][1])

C13_Witness ==
    /\ RollbackDone
    /\ Len(chunks) >= 2
    /\ log[Len(log)].ok
    /\ ~log[BeforeUndo + 1].ok

\* del_func(orig) was called and failed
DelOrigFailed ==
    /\ Len(log) >= 2
    /\ log[2].op = "delete_function"
    /\ ~log[2].ok

\* C14: when orig exists, add_func(addr) failed and del_func(orig) fails,
\* the only call that follows is the add_func(orig) of the restore: no other
\* del_func and no other add_func(addr); the result is false, and every
\* function that existed before the call, orig among them, still exists.
C14_FailedDeleteLeavesFunctions ==
    DelOrigFailed =>
        /\ orig # BADADDR
        /\ orig # func
        /\ log[1].op = "create_function" /\ log[1].arg = func /\ ~log[1].ok
        /\ log[2].arg = orig
        /\ log[2].fn = orig
        /\ pc \in {"restore", "done"}
        /\ Len(log) <= 3
        /\ \A k \in 3..Len(log) :
              /\ log[k].op = "create_function"
              /\ log[k].arg = orig
              /\ last = log[k]
        /\ Returned <=> Len(log) = 3
        /\ Returned => ret = "false"
        /\ ret # "true"
        /\ Funcs(db0) \subseteq Funcs(db)
        /\ GetFunc(db, orig) = orig

C14_Witness ==
    /\ Returned
    /\ DelOrigFailed
    /\ ret = "false"
    /\ Len(chunks) >= 2
    /\ Cardinality(Funcs(db0)) >= 2

(***************************************************************************)
(* Properties of the generators                                            *)
(***************************************************************************)
\* C8: Instructions(start, end=E) raises AlignmentError when an instruction
\* decoded inside [start, E) extends past E.
C8_RaisesAlignmentError ==
    (gState \in {"run", "stop"} /\ gEnd # GNone) =>
        \A k \in 1..Len(gOut) : gOut[k].ea + gOut[k].size <= gEnd

PartiallyMapped(mem, addr, step) ==
    is_mapped(mem, addr) # is_mapped(mem, addr + step - 1)

\* C9: with unmapped=False, allow_unmapped=True and partial=True, Addresses
\* yields nothing after an address that is only partially mapped.
C9_StopsAfterPartial ==
    (/\ gState \in {"run", "tail", "stop", "AlignmentError"}
     /\ ~gOpts.unmapped /\ gOpts.allow_unmapped /\ gOpts.partial) =>
        \A k \in 1..Len(gOut) :
            PartiallyMapped(gMem, gOut[k], gStep) => k = Len(gOut)

====
